---- MODULE Spec2Model ----
(***************************************************************************)
(* PayPal webhook relay (src/pg.js, src/api/code.js, src/unnamed/part_000,  *)
(* src/unnamed/part_001): a request is validated, an e-mail template is    *)
(* fetched from GitHub (cached in the module variable cachedEmailTemplate),*)
(* the two markers are substituted and the rendered e-mail is posted to    *)
(* the Resend API.                                                         *)
(*                                                                         *)
(* Text is modelled as a sequence of tokens.  The tokens "{{", "}}",       *)
(* "itemName", "buyerEmail", "$" and "&" stand for exactly those           *)
(* characters, GRAVE for a grave accent and APOS for an apostrophe; every  *)
(* other token is an opaque piece of text that contains no brace and no    *)
(* dollar sign.  A JavaScript value is a record tagged with its type.      *)
(***************************************************************************)
EXTENDS Integers, Sequences, FiniteSets, TLC

VARIABLES
    variant,              \* which module this process has loaded
    RESEND_API_KEY,       \* process.env.RESEND_API_KEY
    cachedEmailTemplate,  \* the module-level template cache
    inv,                  \* per invocation slot: the handler's position and locals
    started,              \* history: invocations started so far
    fetchCount,           \* history: template-source fetches issued so far
    fetchOk,              \* history: template texts obtained from the source so far
    firstTemplate,        \* history: the text the first successful fetch obtained
    lastResponse,         \* history: response of the invocation that completed last
    sTemplate,            \* substitution on its own: the template given
    sItemName,            \*   the itemName given
    sBuyerEmail,          \*   the buyerEmail given
    sOnce,                \*   the substitution applied once
    sTwice,               \*   the substitution applied to its own output
    sPhase,               \*   "input", "once" or "twice"
    twin                  \* two handlers side by side: the cache both start from,
                          \*   the cache the first left, whether the second has its turn

handlerVars == <<variant, RESEND_API_KEY, cachedEmailTemplate, inv, started,
                 fetchCount, fetchOk, firstTemplate, lastResponse>>
substVars == <<sTemplate, sItemName, sBuyerEmail, sOnce, sTwice, sPhase>>
vars == <<variant, RESEND_API_KEY, cachedEmailTemplate, inv, started,
          fetchCount, fetchOk, firstTemplate, lastResponse,
          sTemplate, sItemName, sBuyerEmail, sOnce, sTwice, sPhase, twin>>

(***************************************************************************)
(* Bounds of the model.                                                    *)
(***************************************************************************)
NumProcs == 2
MaxInvocations == 3
MaxTemplatePieces == 4

Procs == 1..NumProcs

(***************************************************************************)
(* JavaScript values.                                                      *)
(***************************************************************************)
Undefined == [type |-> "undefined"]
Null == [type |-> "null"]
Str(s) == [type |-> "string", str |-> s]
Num(n) == [type |-> "number", num |-> n]
Obj(f) == [type |-> "object", fields |-> f]
Arr(e) == [type |-> "array", elems |-> e]
NoFields == [x \in {} |-> Undefined]

\* a request body that arrives as text: the value it decodes to, or none
JSONText(v) == [type |-> "string", decodes |-> v]
SyntaxError == [type |-> "syntaxerror"]
JSONParseThrows(text) == text.decodes = SyntaxError
JSONParse(text) == text.decodes

Nullish(v) == v.type \in {"undefined", "null"}

\* v.name : undefined unless v is an object that has the property
Get(v, name) ==
    IF v.type = "object" /\ name \in DOMAIN v.fields THEN v.fields[name] ELSE Undefined

\* v?.name
OptGet(v, name) == IF Nullish(v) THEN Undefined ELSE Get(v, name)

\* v?.[0]
OptFirst(v) ==
    IF v.type = "array" /\ Len(v.elems) >= 1 THEN v.elems[1] ELSE Undefined

\* ToBoolean
Truthy(v) ==
    CASE v.type \in {"undefined", "null"} -> FALSE
      [] v.type = "string" -> v.str # <<>>
      [] v.type = "number" -> v.num # 0
      [] OTHER -> TRUE

(***************************************************************************)
(* String.prototype.replace with a global pattern of literal text.         *)
(***************************************************************************)
ITEM_MARKER == <<"{{", "itemName", "}}">>
BUYER_MARKER == <<"{{", "buyerEmail", "}}">>

MatchAt(s, pat, i) ==
    /\ i + Len(pat) - 1 <= Len(s)
    /\ \A k \in 1..Len(pat) : s[i + k - 1] = pat[k]

\* GetSubstitution: a dollar sign followed by a dollar sign, an ampersand, a
\* grave accent or an apostrophe in the replacement text is a pattern; the
\* regular expressions have no capture group, so any other dollar is literal
RECURSIVE GetSubstitution(_, _, _, _, _)
GetSubstitution(repl, k, matched, before, after) ==
    IF k > Len(repl) THEN <<>>
    ELSE IF repl[k] = "$" /\ k < Len(repl) /\ repl[k + 1] \in {"$", "&", "GRAVE", "APOS"}
    THEN (CASE repl[k + 1] = "$" -> <<"$">>
            [] repl[k + 1] = "&" -> matched
            [] repl[k + 1] = "GRAVE" -> before
            [] OTHER -> after)
         \o GetSubstitution(repl, k + 2, matched, before, after)
    ELSE <<repl[k]>> \o GetSubstitution(repl, k + 1, matched, before, after)

RECURSIVE ReplaceFrom(_, _, _, _)
ReplaceFrom(s, pat, repl, i) ==
    IF i > Len(s) THEN <<>>
    ELSE IF MatchAt(s, pat, i)
    THEN GetSubstitution(repl, 1, pat, SubSeq(s, 1, i - 1),
                         SubSeq(s, i + Len(pat), Len(s)))
         \o ReplaceFrom(s, pat, repl, i + Len(pat))
    ELSE <<s[i]>> \o ReplaceFrom(s, pat, repl, i + 1)

\* a plausible slip: the pattern without the g flag replaces the first match only
RECURSIVE ReplaceFirstFrom(_, _, _, _)
ReplaceFirstFrom(s, pat, repl, i) ==
    IF i > Len(s) THEN <<>>
    ELSE IF MatchAt(s, pat, i)
    THEN GetSubstitution(repl, 1, pat, SubSeq(s, 1, i - 1),
                         SubSeq(s, i + Len(pat), Len(s)))
         \o SubSeq(s, i + Len(pat), Len(s))
    ELSE <<s[i]>> \o ReplaceFirstFrom(s, pat, repl, i + 1)

ReplaceFirstOnly(s, pat, repl) == ReplaceFirstFrom(s, pat, repl, 1)

\* s.replace(/pat/g, repl)
ReplaceAll(s, pat, repl) == ReplaceFrom(s, pat, repl, 1)

\* emailTemplate.replace(/{{itemName}}/g, itemName).replace(/{{buyerEmail}}/g, buyerEmail)
\* (the text after the first replace is bound as a value before the second
\* replace reads it)
Personalize(emailTemplate, itemName, buyerEmail) ==
    CHOOSE personalizedEmail \in
        {ReplaceAll(withItemName, BUYER_MARKER, buyerEmail) :
            withItemName \in {ReplaceAll(emailTemplate, ITEM_MARKER, itemName)}} : TRUE

(***************************************************************************)
(* The three handlers named paypalWebhookHandler.                          *)
(*   "pgPlain"  : src/pg.js lines 10-102, no cache                         *)
(*   "pgCached" : src/pg.js lines 143-253                                  *)
(*   "helpers"  : src/unnamed/part_001, with getEmailTemplate and sendEmail *)
(***************************************************************************)
Variants == {"pgPlain", "pgCached", "helpers"}

(***************************************************************************)
(* The two handlers named handler.                                         *)
(*   "apiCode" : src/api/code.js                                           *)
(*   "part000" : src/unnamed/part_000                                      *)
(***************************************************************************)
HandlerVariants == {"apiCode", "part000"}

AllVariants == Variants \cup HandlerVariants

\* a plausible slip: the fetched text is returned without being stored
UsesCacheNowhere(v) == FALSE

\* the variants that keep the template in cachedEmailTemplate
UsesCache(v) == v \in {"pgCached", "helpers"}

\* the variants that wrap JSON.parse in its own try/catch
ParseGuardedNowhere(v) == FALSE

ParseGuarded(v) == v \in {"pgCached", "helpers"}

\* the variants that test typeof req.body before JSON.parse; src/api/code.js
\* has req.body || JSON.parse(req.body) instead
ParsesText(v) == v # "apiCode"

\* the variants that test response.ok of the template source
ChecksTemplateOk(v) == v # "apiCode"

\* a plausible slip: sendEmail makes the call without testing the credential
ChecksCredentialInHandlerOnly(v) == v \in {"pgPlain", "pgCached"}

\* the variants that test RESEND_API_KEY before the provider call
ChecksCredential(v) == v \in {"pgPlain", "pgCached", "helpers"}

\* the variants that test response.ok of the provider
ChecksProviderOk(v) == v \in {"pgPlain", "pgCached", "helpers"}

(***************************************************************************)
(* Responses: res.status(code).json(data).                                 *)
(***************************************************************************)
Response(status, key, text) ==
    [status |-> status, key |-> key, text |-> text, resendId |-> Undefined]
NoResponse == Response(0, "", <<>>)

MethodNotAllowed == Response(405, "error", <<"Method Not Allowed">>)
InvalidJsonBody == Response(400, "error", <<"Invalid JSON body">>)
IgnoredEvent == Response(200, "message", <<"Ignored non-payment event">>)
BuyerEmailNotFound == Response(400, "error", <<"Buyer email not found in event">>)
\* a plausible slip: no outer try/catch, the fault leaves the handler and the
\* caller gets no response from it
UnhandledFault == Response(0, "", <<>>)

InternalServerError == Response(500, "error", <<"Internal Server Error">>)
\* a plausible slip: the identifier is read from a property the provider's
\* answer does not have
EmailSentWithoutId(buyerEmail, resendResult) ==
    [status |-> 200, key |-> "message", text |-> <<"Email sent to ">> \o buyerEmail,
     resendId |-> Get(resendResult, "resendId")]

EmailSent(buyerEmail, resendResult) ==
    [status |-> 200, key |-> "message", text |-> <<"Email sent to ">> \o buyerEmail,
     resendId |-> Get(resendResult, "id")]

\* what the caller gets when obtaining the template throws
TemplateFailure(v) ==
    IF v \in {"pgPlain", "pgCached"}
    THEN Response(500, "error", <<"Failed to fetch email template">>)
    ELSE InternalServerError

\* what the caller gets when RESEND_API_KEY is missing
CredentialFailure(v) ==
    IF v \in {"pgPlain", "pgCached"}
    THEN Response(500, "error", <<"Resend API key not configured">>)
    ELSE InternalServerError

\* a plausible slip: the caught error's message is passed on to the caller
DispatchFailureLeaksError(v, err) == Response(500, "error", err)

\* what the caller gets when the provider call throws err
DispatchFailure(v, err) ==
    IF v \in {"pgPlain", "pgCached"}
    THEN Response(500, "error", <<"Failed to send email">>)
    ELSE InternalServerError

(***************************************************************************)
(* Validation: from the method check to the buyer-email check.             *)
(***************************************************************************)
PAYMENT_CAPTURE_COMPLETED == Str(<<"PAYMENT.CAPTURE.COMPLETED">>)
DIGITAL_PRODUCT == Str(<<"Digital Product">>)

\* a plausible slip: a method test that lets GET through
IsPostOrGet(method) == method \in {"POST", "GET"}

IsPost(method) == method = "POST"

\* a plausible slip: the type of the address is tested, so an empty one passes
BuyerEmailIsString(buyerEmail) == buyerEmail.type = "string"

BuyerEmailPresent(buyerEmail) == Truthy(buyerEmail)

Respond(r) == [respond |-> TRUE, response |-> r]
\* the payloads drawn carry text where they carry an address or a name
Order(buyerEmail, itemName) ==
    [respond |-> FALSE, buyerEmail |-> buyerEmail.str, itemName |-> itemName.str]

\* a plausible slip: an order without an item name is turned away
ExtractOrderNameRequired(body) ==
    LET resource == Get(body, "resource")
        buyerEmail == OptGet(OptGet(resource, "payer"), "email_address")
        name == OptGet(OptFirst(OptGet(OptFirst(OptGet(resource, "purchase_units")),
                                       "items")), "name")
    IN  IF ~BuyerEmailPresent(buyerEmail) \/ ~Truthy(name)
        THEN Respond(BuyerEmailNotFound)
        ELSE Order(buyerEmail, name)

ExtractOrder(body) ==
    LET resource == Get(body, "resource")
        buyerEmail == OptGet(OptGet(resource, "payer"), "email_address")
        name == OptGet(OptFirst(OptGet(OptFirst(OptGet(resource, "purchase_units")),
                                       "items")), "name")
        itemName == IF Truthy(name) THEN name ELSE DIGITAL_PRODUCT
    IN  IF ~BuyerEmailPresent(buyerEmail)
        THEN Respond(BuyerEmailNotFound)
        ELSE Order(buyerEmail, itemName)

\* a plausible slip: the event type is not tested
ValidateAnyEvent(v, method, reqBody) ==
    IF ~IsPost(method) THEN Respond(MethodNotAllowed)
    ELSE IF reqBody.type = "string" /\ JSONParseThrows(reqBody)
    THEN Respond(InvalidJsonBody)
    ELSE LET body == IF reqBody.type = "string" THEN JSONParse(reqBody) ELSE reqBody
         IN  IF Nullish(body) THEN Respond(InternalServerError) ELSE ExtractOrder(body)

\* const body = req.body || JSON.parse(req.body): a truthy body, text
\* included, is taken as it is, and a text has no event_type; of the falsy
\* bodies drawn, JSON.parse(undefined) throws and JSON.parse(null) is null.
\* The texts drawn are not empty.
ValidateUnparsed(reqBody) ==
    IF reqBody.type = "string" THEN Respond(IgnoredEvent)
    ELSE IF ~Truthy(reqBody) THEN Respond(InternalServerError)
    ELSE IF Get(reqBody, "event_type") # PAYMENT_CAPTURE_COMPLETED
    THEN Respond(IgnoredEvent)
    ELSE ExtractOrder(reqBody)

Validate(v, method, reqBody) ==
    IF ~IsPost(method) THEN Respond(MethodNotAllowed)
    ELSE IF ~ParsesText(v) THEN ValidateUnparsed(reqBody)
    ELSE IF reqBody.type = "string" /\ JSONParseThrows(reqBody)
    THEN Respond(IF ParseGuarded(v) THEN InvalidJsonBody ELSE InternalServerError)
    ELSE LET body == IF reqBody.type = "string" THEN JSONParse(reqBody) ELSE reqBody
         IN  IF Nullish(body)
             THEN Respond(InternalServerError)  \* body.event_type throws a TypeError
             ELSE IF Get(body, "event_type") # PAYMENT_CAPTURE_COMPLETED
             THEN Respond(IgnoredEvent)
             ELSE ExtractOrder(body)

(***************************************************************************)
(* The requests and the network answers the model draws from.              *)
(***************************************************************************)
Methods == {"POST", "GET"}

Payer(email) == Obj([payer |-> Obj([email_address |-> email])])
PayerAndItem(email, name) ==
    Obj([payer |-> Obj([email_address |-> email]),
         purchase_units |-> Arr(<<Obj([items |-> Arr(<<Obj([name |-> name])>>)])>>)])
PayerAndUnits(email, units) ==
    Obj([payer |-> Obj([email_address |-> email]), purchase_units |-> units])
Event(type, resource) == Obj([event_type |-> type, resource |-> resource])

BUYER == Str(<<"buyer@x.com">>)

\* payloads that pass validation
OrderPayloads ==
    { Event(PAYMENT_CAPTURE_COMPLETED, Payer(BUYER)),
      Event(PAYMENT_CAPTURE_COMPLETED, PayerAndItem(BUYER, Str(<<"E-book">>))),
      Event(PAYMENT_CAPTURE_COMPLETED, PayerAndUnits(BUYER, Arr(<<>>))),
      Event(PAYMENT_CAPTURE_COMPLETED, PayerAndUnits(BUYER, Arr(<<Obj(NoFields)>>))),
      Event(PAYMENT_CAPTURE_COMPLETED,
            PayerAndUnits(BUYER, Arr(<<Obj([items |-> Arr(<<Obj(NoFields)>>)])>>))) }

\* payloads that do not
OtherPayloads ==
    { Null, Num(5), Str(<<"hello">>),
      Obj(NoFields),
      Event(Str(<<"CHECKOUT.ORDER.APPROVED">>), PayerAndItem(BUYER, Str(<<"E-book">>))),
      Obj([event_type |-> PAYMENT_CAPTURE_COMPLETED]),
      Event(PAYMENT_CAPTURE_COMPLETED, Null),
      Event(PAYMENT_CAPTURE_COMPLETED, Obj(NoFields)),
      Event(PAYMENT_CAPTURE_COMPLETED, Obj([payer |-> Obj(NoFields)])),
      Event(PAYMENT_CAPTURE_COMPLETED, Obj([payer |-> Num(5)])),
      Event(PAYMENT_CAPTURE_COMPLETED, Payer(Null)),
      Event(PAYMENT_CAPTURE_COMPLETED, PayerAndItem(Str(<<>>), Str(<<"E-book">>))) }

Payloads == OrderPayloads \cup OtherPayloads

\* req.body: absent, already parsed (never a string then), or text
Bodies ==
    {Undefined}
    \cup {v \in Payloads : v.type # "string"}
    \cup {JSONText(v) : v \in Payloads}
    \cup {JSONText(SyntaxError)}

\* the texts the template source may return
TemplateTexts ==
    { <<>>,
      <<"Hi ", "{{", "buyerEmail", "}}", ", your ", "{{", "itemName", "}}", " is ready">>,
      <<"Thanks for buying ", "{{", "itemName", "}}">> }

Rejected == [kind |-> "rejected"]
HttpResponse(ok, status) == [kind |-> "response", ok |-> ok, status |-> status]
Settled(value) == [kind |-> "value", value |-> value]

\* fetch(GITHUB_EMAIL_URL)
TemplateFetchOutcomes ==
    {Rejected, HttpResponse(FALSE, "404"), HttpResponse(TRUE, "200")}
\* response.text() of the template source
TemplateTextOutcomes == {Rejected} \cup {Settled(t) : t \in TemplateTexts}
\* fetch("https://api.resend.com/emails", ...)
ProviderFetchOutcomes ==
    {Rejected, HttpResponse(FALSE, "422"), HttpResponse(FALSE, "500"),
     HttpResponse(TRUE, "200")}
\* resendResponse.text() of a provider error
ProviderTextOutcomes ==
    {Rejected, Settled(<<"validation_error">>), Settled(<<"internal_server_error">>)}
\* resendResponse.json() : a syntax error, or the decoded value
ProviderJsonOutcomes ==
    {Rejected, Settled(Obj([id |-> Str(<<"em_123">>)])), Settled(Obj(NoFields)),
     Settled(Null)}

\* process.env.RESEND_API_KEY: unset, set to the empty string, or set
ApiKeys == {Undefined, Str(<<>>), Str(<<"re_secret">>)}

(***************************************************************************)
(* One invocation of the handler.                                          *)
(***************************************************************************)
\* templateResponse, templateText, providerResponse, providerText and
\* providerJson record what each awaited network operation settled with
NoAnswer == [kind |-> "none"]

Blank ==
    [pc |-> "idle", method |-> "", body |-> Undefined,
     buyerEmail |-> <<>>, itemName |-> <<>>,
     emailTemplate |-> <<>>, personalizedEmail |-> <<>>,
     fetches |-> 0, templateResponse |-> NoAnswer, templateText |-> NoAnswer,
     calls |-> <<>>, providerResponse |-> NoAnswer, providerText |-> NoAnswer,
     providerJson |-> NoAnswer,
     response |-> NoResponse]

\* return res.status(..).json(..)
Finish(p, rec, response) ==
    inv' = [inv EXCEPT ![p] = [rec EXCEPT !.pc = "done", !.response = response]]

\* if (cachedEmailTemplate) ...
CacheHit(cache) == Truthy(cache)

\* The handler from its entry to its first await: validation, then
\* getEmailTemplate up to fetch(GITHUB_EMAIL_URL) or its cached return.
Invoke(p, method, reqBody) ==
    /\ inv[p].pc = "idle"
    /\ started < MaxInvocations
    /\ started' = started + 1
    /\ LET rec == [Blank EXCEPT !.method = method, !.body = reqBody]
           v == Validate(variant, method, reqBody)
       IN  IF v.respond
           THEN /\ Finish(p, rec, v.response)
                /\ UNCHANGED fetchCount
           ELSE LET order == [rec EXCEPT !.buyerEmail = v.buyerEmail,
                                         !.itemName = v.itemName]
                IN  IF UsesCache(variant) /\ CacheHit(cachedEmailTemplate)
                    THEN /\ inv' = [inv EXCEPT ![p] =
                                 [order EXCEPT !.pc = "templateReady",
                                               !.emailTemplate = cachedEmailTemplate.str]]
                         /\ UNCHANGED fetchCount
                    ELSE /\ inv' = [inv EXCEPT ![p] =
                                 [order EXCEPT !.pc = "awaitFetch", !.fetches = 1]]
                         /\ fetchCount' = fetchCount + 1
    /\ UNCHANGED <<variant, RESEND_API_KEY, cachedEmailTemplate, fetchOk,
                   firstTemplate, lastResponse>>
    /\ UNCHANGED substVars
    /\ UNCHANGED twin

\* a plausible slip: response.ok of the template source is not tested
TemplateOkIgnored(response) == TRUE

\* if (!response.ok) throw ...
TemplateOk(response) == response.ok

\* await fetch(GITHUB_EMAIL_URL) settles
TemplateFetchSettles(p, outcome) ==
    /\ inv[p].pc = "awaitFetch"
    /\ LET rec == [inv[p] EXCEPT !.templateResponse = outcome]
       IN  IF outcome.kind = "rejected"
           THEN Finish(p, rec, TemplateFailure(variant))
           ELSE IF ChecksTemplateOk(variant) /\ ~TemplateOk(outcome)
           THEN Finish(p, rec, TemplateFailure(variant))
           ELSE inv' = [inv EXCEPT ![p] = [rec EXCEPT !.pc = "awaitText"]]
    /\ UNCHANGED <<variant, RESEND_API_KEY, cachedEmailTemplate, started, fetchCount,
                   fetchOk, firstTemplate, lastResponse>>
    /\ UNCHANGED substVars
    /\ UNCHANGED twin

\* await response.text() settles; cachedEmailTemplate = ...
TemplateTextSettles(p, outcome) ==
    /\ inv[p].pc = "awaitText"
    /\ IF outcome.kind = "rejected"
       THEN /\ Finish(p, [inv[p] EXCEPT !.templateText = outcome],
                      TemplateFailure(variant))
            /\ UNCHANGED <<cachedEmailTemplate, fetchOk, firstTemplate>>
       ELSE /\ inv' = [inv EXCEPT ![p].pc = "templateReady",
                                  ![p].templateText = outcome,
                                  ![p].emailTemplate = outcome.value]
            /\ cachedEmailTemplate' = IF UsesCache(variant) THEN Str(outcome.value)
                                      ELSE cachedEmailTemplate
            /\ fetchOk' = fetchOk + 1
            /\ firstTemplate' = IF fetchOk = 0 THEN Str(outcome.value) ELSE firstTemplate
    /\ UNCHANGED <<variant, RESEND_API_KEY, started, fetchCount, lastResponse>>
    /\ UNCHANGED substVars
    /\ UNCHANGED twin

\* a plausible slip: the credential is not tested before the call
CredentialAssumed(key) == TRUE

\* if (!RESEND_API_KEY) ...
CredentialConfigured(key) == Truthy(key)

ProviderCall(rec, key) ==
    [to |-> rec.buyerEmail,
     subject |-> <<"Your ">> \o rec.itemName \o <<" is ready!">>,
     html |-> Personalize(rec.emailTemplate, rec.itemName, rec.buyerEmail),
     bearer |-> key]

\* The handler resumes with the template: substitution, the credential check
\* and fetch("https://api.resend.com/emails", ...).
PersonalizeAndSend(p) ==
    /\ inv[p].pc = "templateReady"
    /\ LET rec == [inv[p] EXCEPT !.personalizedEmail =
                       Personalize(inv[p].emailTemplate, inv[p].itemName,
                                   inv[p].buyerEmail)]
       IN  IF ChecksCredential(variant) /\ ~CredentialConfigured(RESEND_API_KEY)
           THEN Finish(p, rec, CredentialFailure(variant))
           ELSE inv' = [inv EXCEPT ![p] =
                    [rec EXCEPT !.pc = "awaitProvider",
                                !.calls = Append(rec.calls, ProviderCall(rec, RESEND_API_KEY))]]
    /\ UNCHANGED <<variant, RESEND_API_KEY, cachedEmailTemplate, started, fetchCount,
                   fetchOk, firstTemplate, lastResponse>>
    /\ UNCHANGED substVars
    /\ UNCHANGED twin

\* await fetch("https://api.resend.com/emails", ...) settles
ProviderFetchSettles(p, outcome) ==
    /\ inv[p].pc = "awaitProvider"
    /\ LET rec == [inv[p] EXCEPT !.providerResponse = outcome]
       IN  IF outcome.kind = "rejected"
           THEN Finish(p, rec, DispatchFailure(variant, <<"fetch failed">>))
           ELSE IF ChecksProviderOk(variant) /\ ~outcome.ok
           THEN inv' = [inv EXCEPT ![p] = [rec EXCEPT !.pc = "awaitErrorText"]]
           ELSE inv' = [inv EXCEPT ![p] = [rec EXCEPT !.pc = "awaitJson"]]
    /\ UNCHANGED <<variant, RESEND_API_KEY, cachedEmailTemplate, started, fetchCount,
                   fetchOk, firstTemplate, lastResponse>>
    /\ UNCHANGED substVars
    /\ UNCHANGED twin

\* new Error(`Resend API error: ${response.status}`); the first handler of
\* src/pg.js appends the response text
ResendApiError(v, status, text) ==
    IF v = "pgPlain"
    THEN <<"Resend API error: ", status, " ">> \o text
    ELSE <<"Resend API error: ", status>>

\* await resendResponse.text() of a provider error settles; the text is logged
\* and the error thrown
ProviderErrorTextSettles(p, outcome) ==
    /\ inv[p].pc = "awaitErrorText"
    /\ LET rec == [inv[p] EXCEPT !.providerText = outcome]
       IN  IF outcome.kind = "rejected"
           THEN Finish(p, rec, DispatchFailure(variant, <<"body unreadable">>))
           ELSE Finish(p, rec,
                       DispatchFailure(variant,
                           ResendApiError(variant, rec.providerResponse.status,
                                          outcome.value)))
    /\ UNCHANGED <<variant, RESEND_API_KEY, cachedEmailTemplate, started, fetchCount,
                   fetchOk, firstTemplate, lastResponse>>
    /\ UNCHANGED substVars
    /\ UNCHANGED twin

\* await resendResponse.json() settles; then the success response, whose
\* resendResult.id throws a TypeError on a null result
ProviderJsonSettles(p, outcome) ==
    /\ inv[p].pc = "awaitJson"
    /\ LET rec == [inv[p] EXCEPT !.providerJson = outcome]
       IN  IF outcome.kind = "rejected"
           THEN Finish(p, rec, DispatchFailure(variant, <<"invalid json response body">>))
           ELSE IF Nullish(outcome.value)
           THEN Finish(p, rec, InternalServerError)
           ELSE Finish(p, rec, EmailSent(rec.buyerEmail, outcome.value))
    /\ UNCHANGED <<variant, RESEND_API_KEY, cachedEmailTemplate, started, fetchCount,
                   fetchOk, firstTemplate, lastResponse>>
    /\ UNCHANGED substVars
    /\ UNCHANGED twin

\* the response has been returned; the slot is free for the next request
Complete(p) ==
    /\ inv[p].pc = "done"
    /\ lastResponse' = inv[p].response
    /\ inv' = [inv EXCEPT ![p] = Blank]
    /\ UNCHANGED <<variant, RESEND_API_KEY, cachedEmailTemplate, started, fetchCount,
                   fetchOk, firstTemplate>>
    /\ UNCHANGED substVars
    /\ UNCHANGED twin

(***************************************************************************)
(* Substitution on its own, on templates built from pieces.                *)
(***************************************************************************)
TemplatePieces == {ITEM_MARKER, BUYER_MARKER, <<"x">>, <<"{{">>, <<"}}">>}

RECURSIVE TemplatesOf(_)
TemplatesOf(n) ==
    IF n = 0 THEN {<<>>}
    ELSE LET shorter == TemplatesOf(n - 1)
         IN  shorter \cup {t \o piece : t \in shorter, piece \in TemplatePieces}

ItemNames ==
    { <<"Widget">>, <<"$", "&">>, <<"$", "$">>, <<"$", "GRAVE">>, <<"$", "APOS">>,
      BUYER_MARKER, <<>> }
BuyerEmails == { <<"a@b.com">>, ITEM_MARKER, <<"itemName">>, <<"$", "&">> }

SubstInit ==
    /\ sTemplate \in TemplatesOf(MaxTemplatePieces)
    /\ sItemName \in ItemNames
    /\ sBuyerEmail \in BuyerEmails
    /\ sOnce = <<>>
    /\ sTwice = <<>>
    /\ sPhase = "input"

SubstituteOnce ==
    /\ sPhase = "input"
    /\ sOnce' = Personalize(sTemplate, sItemName, sBuyerEmail)
    /\ sPhase' = "once"
    /\ UNCHANGED <<sTemplate, sItemName, sBuyerEmail, sTwice>>
    /\ UNCHANGED handlerVars
    /\ UNCHANGED twin

SubstituteAgain ==
    /\ sPhase = "once"
    /\ sTwice' = Personalize(sOnce, sItemName, sBuyerEmail)
    /\ sPhase' = "twice"
    /\ UNCHANGED <<sTemplate, sItemName, sBuyerEmail, sOnce>>
    /\ UNCHANGED handlerVars
    /\ UNCHANGED twin

SubstIdle ==
    /\ sTemplate = <<>>
    /\ sItemName = <<>>
    /\ sBuyerEmail = <<>>
    /\ sOnce = <<>>
    /\ sTwice = <<>>
    /\ sPhase = "input"

(***************************************************************************)
(* Specifications.                                                         *)
(***************************************************************************)
\* no second handler runs beside the first
NoTwin == [start |-> Null, first |-> Null, switched |-> FALSE]

\* a process that has just loaded the module
ModuleLoaded ==
    /\ twin = NoTwin
    /\ RESEND_API_KEY \in ApiKeys
    /\ cachedEmailTemplate = Null
    /\ inv = [p \in Procs |-> Blank]
    /\ started = 0
    /\ fetchCount = 0
    /\ fetchOk = 0
    /\ firstTemplate = Null
    /\ lastResponse = NoResponse

HandlerInit == variant \in Variants /\ ModuleLoaded

Init == HandlerInit /\ SubstIdle

AllIdle == \A q \in Procs : inv[q].pc = "idle"

\* one request at a time: a request is taken up when no invocation is in flight
Next ==
    \/ \E method \in Methods, reqBody \in Bodies : AllIdle /\ Invoke(1, method, reqBody)
    \/ \E outcome \in TemplateFetchOutcomes : TemplateFetchSettles(1, outcome)
    \/ \E outcome \in TemplateTextOutcomes : TemplateTextSettles(1, outcome)
    \/ PersonalizeAndSend(1)
    \/ \E outcome \in ProviderFetchOutcomes : ProviderFetchSettles(1, outcome)
    \/ \E outcome \in ProviderTextOutcomes : ProviderErrorTextSettles(1, outcome)
    \/ \E outcome \in ProviderJsonOutcomes : ProviderJsonSettles(1, outcome)
    \/ Complete(1)

Spec == Init /\ [][Next]_vars

\* the steps that resume a suspended invocation: the awaited network
\* operation settles, or the handler goes on with the template in hand
Resume ==
    \/ \E outcome \in TemplateFetchOutcomes : TemplateFetchSettles(1, outcome)
    \/ \E outcome \in TemplateTextOutcomes : TemplateTextSettles(1, outcome)
    \/ PersonalizeAndSend(1)
    \/ \E outcome \in ProviderFetchOutcomes : ProviderFetchSettles(1, outcome)
    \/ \E outcome \in ProviderTextOutcomes : ProviderErrorTextSettles(1, outcome)
    \/ \E outcome \in ProviderJsonOutcomes : ProviderJsonSettles(1, outcome)

\* every awaited network operation settles, and the handler then resumes
Fairness == WF_vars(Resume)

\* the cached handler of src/pg.js, one request at a time, with every
\* suspended invocation resumed
FairInit == Init /\ variant = "pgCached"

FairSpec == FairInit /\ [][Next]_vars /\ Fairness

\* the same, for each of the five handlers of the repository
AllVariantsInit == variant \in AllVariants /\ ModuleLoaded /\ SubstIdle

AllVariantsSpec == AllVariantsInit /\ [][Next]_vars

\* concurrent invocations in one process: any slot may take up a request while
\* others are suspended at an await; the requests are orders and the provider
\* either accepts the e-mail or cannot be reached
ConcurrentBodies == {JSONText(Event(PAYMENT_CAPTURE_COMPLETED, Payer(BUYER)))}
ConcurrentProviderOutcomes == {Rejected, HttpResponse(TRUE, "200")}
ConcurrentJsonOutcomes == {Settled(Obj([id |-> Str(<<"em_123">>)]))}

ConcurrentInit ==
    /\ HandlerInit
    /\ UsesCache(variant)
    /\ RESEND_API_KEY = Str(<<"re_secret">>)
    /\ SubstIdle

ConcurrentNext ==
    \E p \in Procs :
        \/ \E reqBody \in ConcurrentBodies : Invoke(p, "POST", reqBody)
        \/ \E outcome \in TemplateFetchOutcomes : TemplateFetchSettles(p, outcome)
        \/ \E outcome \in TemplateTextOutcomes : TemplateTextSettles(p, outcome)
        \/ PersonalizeAndSend(p)
        \/ \E outcome \in ConcurrentProviderOutcomes : ProviderFetchSettles(p, outcome)
        \/ \E outcome \in ConcurrentJsonOutcomes : ProviderJsonSettles(p, outcome)
        \/ Complete(p)

ConcurrentSpec == ConcurrentInit /\ [][ConcurrentNext]_vars

\* Two handlers side by side: the handler with getEmailTemplate and sendEmail
\* takes a request from some state of the cache (empty as after the load, or
\* holding a text an earlier request stored); then the cached handler of
\* src/pg.js takes the same request from the same state of the cache, with the
\* same credential, and each of its awaits settles as the first handler's did.
Caches == {Null} \cup {Str(t) : t \in TemplateTexts}

SideBySideInit ==
    /\ variant = "helpers"
    /\ RESEND_API_KEY \in ApiKeys
    /\ cachedEmailTemplate \in Caches
    /\ twin = [start |-> cachedEmailTemplate, first |-> Null, switched |-> FALSE]
    /\ inv = [p \in Procs |-> Blank]
    /\ started = 0
    /\ fetchCount = 0
    /\ fetchOk = 0
    /\ firstTemplate = Null
    /\ lastResponse = NoResponse
    /\ SubstIdle

\* the first handler has responded: the second gets its turn
Switch ==
    /\ ~twin.switched
    /\ inv[1].pc = "done"
    /\ twin' = [twin EXCEPT !.first = cachedEmailTemplate, !.switched = TRUE]
    /\ variant' = "pgCached"
    /\ cachedEmailTemplate' = twin.start
    /\ UNCHANGED <<RESEND_API_KEY, inv, started, fetchCount, fetchOk, firstTemplate,
                   lastResponse>>
    /\ UNCHANGED substVars

\* the outcome the first handler's await settled with, if it had that await
SameAs(recorded, outcomes) == IF recorded.kind = "none" THEN outcomes ELSE {recorded}

SideBySideNext ==
    \/ \E method \in Methods, reqBody \in Bodies :
           started = 0 /\ Invoke(1, method, reqBody)
    \/ \E outcome \in TemplateFetchOutcomes : TemplateFetchSettles(1, outcome)
    \/ \E outcome \in TemplateTextOutcomes : TemplateTextSettles(1, outcome)
    \/ PersonalizeAndSend(1)
    \/ \E outcome \in ProviderFetchOutcomes : ProviderFetchSettles(1, outcome)
    \/ \E outcome \in ProviderTextOutcomes : ProviderErrorTextSettles(1, outcome)
    \/ \E outcome \in ProviderJsonOutcomes : ProviderJsonSettles(1, outcome)
    \/ Switch
    \/ twin.switched /\ Invoke(2, inv[1].method, inv[1].body)
    \/ \E outcome \in SameAs(inv[1].templateResponse, TemplateFetchOutcomes) :
           TemplateFetchSettles(2, outcome)
    \/ \E outcome \in SameAs(inv[1].templateText, TemplateTextOutcomes) :
           TemplateTextSettles(2, outcome)
    \/ PersonalizeAndSend(2)
    \/ \E outcome \in SameAs(inv[1].providerResponse, ProviderFetchOutcomes) :
           ProviderFetchSettles(2, outcome)
    \/ \E outcome \in SameAs(inv[1].providerText, ProviderTextOutcomes) :
           ProviderErrorTextSettles(2, outcome)
    \/ \E outcome \in SameAs(inv[1].providerJson, ProviderJsonOutcomes) :
           ProviderJsonSettles(2, outcome)

SideBySideSpec == SideBySideInit /\ [][SideBySideNext]_vars

\* the substitution applied to bounded inputs
SubstStart ==
    /\ HandlerInit
    /\ variant = "pgCached"
    /\ RESEND_API_KEY = Undefined
    /\ SubstInit

SubstNext == SubstituteOnce \/ SubstituteAgain

SubstSpec == SubstStart /\ [][SubstNext]_vars

(***************************************************************************)
(* Properties.                                                             *)
(***************************************************************************)
Done(p) == inv[p].pc = "done"
Active(p) == inv[p].pc # "idle"

\* the payload a request body stands for, when it decodes
Decodes(reqBody) == ~(reqBody.type = "string" /\ reqBody.decodes = SyntaxError)
PayloadOf(reqBody) == IF reqBody.type = "string" THEN reqBody.decodes ELSE reqBody
EventTypeOf(payload) ==
    IF payload.type = "object" /\ "event_type" \in DOMAIN payload.fields
    THEN payload.fields.event_type ELSE Undefined
IsPaymentCompleted(reqBody) ==
    /\ Decodes(reqBody)
    /\ EventTypeOf(PayloadOf(reqBody)) = Str(<<"PAYMENT.CAPTURE.COMPLETED">>)
Field(v, name) ==
    IF v.type = "object" /\ name \in DOMAIN v.fields THEN v.fields[name] ELSE Undefined
BuyerEmailOf(reqBody) ==
    Field(Field(Field(PayloadOf(reqBody), "resource"), "payer"), "email_address")
AbsentOrEmpty(v) == v.type \in {"undefined", "null"} \/ (v.type = "string" /\ v.str = <<>>)
NoNetworkCall(p) == inv[p].fetches = 0 /\ inv[p].calls = <<>>
CredentialMissing == RESEND_API_KEY = Undefined \/ RESEND_API_KEY = Str(<<>>)

\* C1: a request whose method is not POST is answered 405 "Method Not
\* Allowed" on the spot, and its invocation fetches no template and calls no
\* provider, whatever the body, the cache and the credential.
C1_NonPostIs405 ==
    \A p \in Procs :
        (Active(p) /\ inv[p].method # "POST")
        => /\ Done(p)
           /\ inv[p].response = Response(405, "error", <<"Method Not Allowed">>)
           /\ NoNetworkCall(p)

C1_Witness ==
    \E p \in Procs :
        /\ Done(p)
        /\ inv[p].method = "GET"
        /\ inv[p].body \in {JSONText(v) : v \in OrderPayloads}
        /\ cachedEmailTemplate.type = "string"
        /\ ~CredentialMissing
        /\ inv[p].response.status = 405

\* C2: a POST whose payload decodes and whose event_type is not
\* "PAYMENT.CAPTURE.COMPLETED" (a payload without the field, a null payload and
\* an absent body included) is answered 200 "Ignored non-payment event" with
\* no template fetch and no provider call.
C2_NonPaymentIsIgnored ==
    \A p \in Procs :
        (Done(p) /\ inv[p].method = "POST" /\ Decodes(inv[p].body)
            /\ ~IsPaymentCompleted(inv[p].body))
        => /\ inv[p].response = Response(200, "message", <<"Ignored non-payment event">>)
           /\ NoNetworkCall(p)

\* C3: a POST payment-completed payload whose resource.payer.email_address is
\* absent or empty is answered 400 "Buyer email not found in event" and no
\* provider call is made; every provider call carries a non-empty recipient.
C3_MissingBuyerEmailIs400 ==
    \A p \in Procs :
        /\ (Active(p) /\ inv[p].method = "POST" /\ IsPaymentCompleted(inv[p].body)
               /\ AbsentOrEmpty(BuyerEmailOf(inv[p].body)))
           => /\ Done(p)
              /\ inv[p].response =
                     Response(400, "error", <<"Buyer email not found in event">>)
              /\ inv[p].calls = <<>>
        /\ \A i \in 1..Len(inv[p].calls) : inv[p].calls[i].to # <<>>

C3_Witness ==
    \E p \in Procs :
        /\ Done(p)
        /\ inv[p].method = "POST"
        /\ IsPaymentCompleted(inv[p].body)
        /\ BuyerEmailOf(inv[p].body) = Str(<<>>)
        /\ inv[p].response.status = 400

\* the step that takes up a POST whose body is text that does not decode
C4_MalformedStep ==
    \A p \in Procs :
        (/\ variant \in {"pgCached", "helpers"}
         /\ inv[p].pc = "idle"
         /\ inv'[p].pc # "idle"
         /\ inv'[p].method = "POST"
         /\ ~Decodes(inv'[p].body))
        => /\ inv'[p].pc = "done"
           /\ inv'[p].response = Response(400, "error", <<"Invalid JSON body">>)
           /\ inv'[p].fetches = 0
           /\ inv'[p].calls = <<>>
           /\ fetchCount' = fetchCount
           /\ cachedEmailTemplate' = cachedEmailTemplate

\* C4: in the handlers that guard JSON.parse (the cached handler of src/pg.js
\* and the handler with sendEmail), a POST whose body is text that does not
\* decode is answered 400 "Invalid JSON body", never the catch-all 500, with no
\* network call and the template cache left as it was.
C4_MalformedIs400 == [][C4_MalformedStep]_vars

C4_Witness ==
    \E p \in Procs :
        /\ variant \in {"pgCached", "helpers"}
        /\ Done(p)
        /\ inv[p].method = "POST"
        /\ ~Decodes(inv[p].body)
        /\ cachedEmailTemplate.type = "string"
        /\ cachedEmailTemplate.str # <<>>
        /\ inv[p].response.status = 400

\* a step taken after a template fetch has succeeded
C5_FetchedOnceStep ==
    (UsesCache(variant) /\ fetchOk >= 1)
    => /\ fetchCount' = fetchCount
       /\ \A p \in Procs :
              inv'[p].pc = "templateReady" => inv'[p].emailTemplate = firstTemplate.str

\* C5: in the caching handlers, once a template fetch has succeeded no later
\* invocation fetches from the template source, and every later invocation
\* renders with the text the first successful fetch obtained, whatever text
\* the source returned.
C5_FetchedOnce == [][C5_FetchedOnceStep]_vars

TemplateFetchFailed(p) ==
    \/ inv[p].templateResponse.kind = "rejected"
    \/ (inv[p].templateResponse.kind = "response" /\ ~inv[p].templateResponse.ok)
    \/ inv[p].templateText.kind = "rejected"
FailedToFetchTemplate == Response(500, "error", <<"Failed to fetch email template">>)
IsOrder(p) ==
    /\ inv[p].method = "POST"
    /\ Decodes(inv[p].body)
    /\ PayloadOf(inv[p].body) \in OrderPayloads

\* an invocation whose template fetch failed has ended with the template
\* failure, without a provider call, and the cache holds no usable template
C6_FailureState ==
    \A p \in Procs :
        (variant = "pgCached" /\ Active(p) /\ TemplateFetchFailed(p))
        => /\ Done(p)
           /\ inv[p].response = FailedToFetchTemplate
           /\ inv[p].calls = <<>>
           /\ cachedEmailTemplate \in {Null, Str(<<>>)}

\* the order that follows a template failure fetches afresh
C6_RetryStep ==
    \A p \in Procs :
        (/\ variant = "pgCached"
         /\ lastResponse = FailedToFetchTemplate
         /\ inv[p].pc = "idle"
         /\ inv'[p].pc # "idle"
         /\ inv'[p].method = "POST"
         /\ Decodes(inv'[p].body)
         /\ PayloadOf(inv'[p].body) \in OrderPayloads)
        => /\ inv'[p].pc = "awaitFetch"
           /\ fetchCount' = fetchCount + 1

\* the step at which a template fetch fails leaves the cache as it was
C6_FailureStep ==
    \A p \in Procs :
        (variant = "pgCached" /\ ~TemplateFetchFailed(p) /\ TemplateFetchFailed(p)')
        => cachedEmailTemplate' = cachedEmailTemplate

\* C6: in the cached handler of src/pg.js, a template fetch that fails (a
\* non-success status, a transport failure, or a failure reading the text) is
\* answered 500 "Failed to fetch email template", no provider call is made and
\* the cache is still unpopulated, so that the next order fetches afresh.
C6_TemplateFailureIs500 ==
    [](C6_FailureState) /\ [][C6_FailureStep /\ C6_RetryStep]_vars

C6_Witness ==
    \E p \in Procs :
        /\ variant = "pgCached"
        /\ lastResponse = FailedToFetchTemplate
        /\ inv[p].pc = "done"
        /\ inv[p].templateResponse = HttpResponse(FALSE, "404")
        /\ fetchCount = 2

\* C7: with RESEND_API_KEY absent or empty no call to the e-mail provider is
\* ever made, and every order that passed validation ends with a 500.
C7_NoCredentialNoCall ==
    CredentialMissing
    => \A p \in Procs :
           /\ inv[p].calls = <<>>
           /\ (Done(p) /\ IsOrder(p)) => inv[p].response.status = 500

C7_Witness ==
    \E p \in Procs :
        /\ RESEND_API_KEY = Str(<<>>)
        /\ Done(p)
        /\ IsOrder(p)
        /\ inv[p].templateText.kind = "value"
        /\ inv[p].personalizedEmail # <<>>
        /\ inv[p].response.status = 500

\* C8: when the provider answers with a non-success status the caller gets a
\* 500 whose body is a fixed message of the handler: it is the same for every
\* provider status and every provider error body, and carries no resendId.
GenericDispatchFailure ==
    [v \in Variants |->
        IF v = "helpers" THEN Response(500, "error", <<"Internal Server Error">>)
        ELSE Response(500, "error", <<"Failed to send email">>)]

C8_ProviderErrorIsGeneric ==
    \A p \in Procs :
        (Done(p) /\ inv[p].providerResponse.kind = "response"
            /\ ~inv[p].providerResponse.ok)
        => inv[p].response = GenericDispatchFailure[variant]

C8_Witness ==
    \E p \in Procs :
        /\ Done(p)
        /\ inv[p].providerResponse = HttpResponse(FALSE, "422")
        /\ inv[p].providerText = Settled(<<"validation_error">>)
        /\ inv[p].response.status = 500

(***************************************************************************)
(* Properties of the substitution.                                         *)
(***************************************************************************)
\* the reference: one pass over the template, each marker of the template
\* replaced by the value as it is, everything else copied
RECURSIVE OnePassFrom(_, _, _, _)
OnePassFrom(t, itemName, buyerEmail, i) ==
    IF i > Len(t) THEN <<>>
    ELSE IF i + 2 <= Len(t) /\ SubSeq(t, i, i + 2) = <<"{{", "itemName", "}}">>
    THEN itemName \o OnePassFrom(t, itemName, buyerEmail, i + 3)
    ELSE IF i + 2 <= Len(t) /\ SubSeq(t, i, i + 2) = <<"{{", "buyerEmail", "}}">>
    THEN buyerEmail \o OnePassFrom(t, itemName, buyerEmail, i + 3)
    ELSE <<t[i]>> \o OnePassFrom(t, itemName, buyerEmail, i + 1)

OnePass(t, itemName, buyerEmail) == OnePassFrom(t, itemName, buyerEmail, 1)

IsMarkerAt(t, i) ==
    /\ i + 2 <= Len(t)
    /\ SubSeq(t, i, i + 2) \in {<<"{{", "itemName", "}}">>, <<"{{", "buyerEmail", "}}">>}
Markers(t, m) == {i \in 1..Len(t) : i + 2 <= Len(t) /\ SubSeq(t, i, i + 2) = m}

\* every brace of the template belongs to one of the two markers
BracesOnlyInMarkers(t) ==
    \A i \in 1..Len(t) :
        t[i] \in {"{{", "}}"}
        => \/ (t[i] = "{{" /\ IsMarkerAt(t, i))
           \/ (t[i] = "}}" /\ i >= 3 /\ IsMarkerAt(t, i - 2))

\* a value without brace and without dollar sign
PlainValue(s) == \A i \in 1..Len(s) : s[i] \notin {"{{", "}}", "$"}

\* C9: substitution is idempotent for every template and every pair of
\* values: applied to its own output with the same values it changes nothing.
C9_Idempotent == sPhase = "twice" => sTwice = sOnce

\* C9 as amended: substitution is idempotent when every brace of the template
\* belongs to one of the two markers and neither value contains a brace or a
\* dollar sign.
C9_IdempotentOnPlainValues ==
    (/\ sPhase = "twice"
     /\ BracesOnlyInMarkers(sTemplate)
     /\ PlainValue(sItemName)
     /\ PlainValue(sBuyerEmail))
    => sTwice = sOnce

C9_Witness ==
    /\ sPhase = "twice"
    /\ BracesOnlyInMarkers(sTemplate)
    /\ PlainValue(sItemName)
    /\ PlainValue(sBuyerEmail)
    /\ Cardinality(Markers(sTemplate, <<"{{", "itemName", "}}">>)) >= 2
    /\ Cardinality(Markers(sTemplate, <<"{{", "buyerEmail", "}}">>)) >= 2
    /\ sItemName # <<>>
    /\ sTwice = sOnce
    /\ sOnce # sTemplate

\* C10: the rendered text is the template with each {{itemName}} replaced by
\* exactly itemName and each {{buyerEmail}} by exactly buyerEmail, all other
\* text left as it is: the chained replacements agree with the one-pass
\* reference.
C10_RenderIsOnePass ==
    sPhase # "input" => sOnce = OnePass(sTemplate, sItemName, sBuyerEmail)

(***************************************************************************)
(* Properties of the order path.                                           *)
(***************************************************************************)
First(v) == IF v.type = "array" /\ Len(v.elems) >= 1 THEN v.elems[1] ELSE Undefined
\* resource.purchase_units[0].items[0].name of the payload, undefined when a
\* segment of the path is missing
ItemNameOf(reqBody) ==
    Field(First(Field(First(Field(Field(PayloadOf(reqBody), "resource"),
                                  "purchase_units")), "items")), "name")
\* the invocation has a template in hand: fetched, or found in the cache
TemplateObtained(p) ==
    \/ inv[p].templateText.kind = "value"
    \/ (inv[p].fetches = 0 /\ inv[p].emailTemplate # <<>>)
ProviderSucceeded(p) ==
    /\ inv[p].providerResponse.kind = "response"
    /\ inv[p].providerResponse.ok
    /\ inv[p].providerJson.kind = "value"
    /\ inv[p].providerJson.value.type = "object"
HasBuyerEmail(p) ==
    /\ inv[p].method = "POST"
    /\ IsPaymentCompleted(inv[p].body)
    /\ ~AbsentOrEmpty(BuyerEmailOf(inv[p].body))

\* C11: a POST payment-completed payload with a buyer email in which a
\* segment of resource.purchase_units[0].items[0].name is missing is not
\* turned away: itemName is "Digital Product", the invocation goes on to the
\* template and, with the credential set, to the provider call, whose subject
\* is "Your Digital Product is ready!", and with a template obtained and a
\* provider success it ends with the 200 e-mail-sent response.
C11_MissingNameIsDefault ==
    \A p \in Procs :
        (Active(p) /\ HasBuyerEmail(p) /\ ItemNameOf(inv[p].body) = Undefined)
        => /\ inv[p].itemName = <<"Digital Product">>
           /\ inv[p].response.status \notin {400, 405}
           /\ inv[p].response.text # <<"Ignored non-payment event">>
           /\ (inv[p].fetches = 1 \/ TemplateObtained(p))
           /\ \A i \in 1..Len(inv[p].calls) :
                  inv[p].calls[i].subject = <<"Your ", "Digital Product", " is ready!">>
           /\ (Done(p) /\ TemplateObtained(p) /\ ~CredentialMissing)
              => Len(inv[p].calls) = 1
           /\ (Done(p) /\ TemplateObtained(p) /\ ProviderSucceeded(p))
              => inv[p].response =
                     [status |-> 200, key |-> "message",
                      text |-> <<"Email sent to ">> \o BuyerEmailOf(inv[p].body).str,
                      resendId |-> Field(inv[p].providerJson.value, "id")]

C11_Witness ==
    \E p \in Procs :
        /\ Done(p)
        /\ inv[p].body = JSONText(Event(PAYMENT_CAPTURE_COMPLETED,
                              PayerAndUnits(BUYER, Arr(<<Obj(NoFields)>>))))
        /\ inv[p].templateText.kind = "value"
        /\ Len(inv[p].calls) = 1
        /\ inv[p].calls[1].subject = <<"Your ", "Digital Product", " is ready!">>
        /\ inv[p].response.status = 200

\* C12: a POST order with buyer email E and item name N, a template
\* obtained, the credential set and a provider success carrying identifier I
\* makes exactly one provider call, to E, with subject "Your N is ready!" and
\* the template rendered with N and E as html, and is answered
\* 200 {message: "Email sent to E", resendId: I}.
C12_SuccessPath ==
    \A p \in Procs :
        (/\ Done(p)
         /\ HasBuyerEmail(p)
         /\ ItemNameOf(inv[p].body).type = "string"
         /\ ItemNameOf(inv[p].body).str # <<>>
         /\ TemplateObtained(p)
         /\ ~CredentialMissing
         /\ ProviderSucceeded(p)
         /\ Field(inv[p].providerJson.value, "id").type = "string")
        => LET E == BuyerEmailOf(inv[p].body).str
               N == ItemNameOf(inv[p].body).str
               T == IF inv[p].templateText.kind = "value"
                    THEN inv[p].templateText.value ELSE cachedEmailTemplate.str
           IN  /\ Len(inv[p].calls) = 1
               /\ inv[p].calls[1].to = E
               /\ inv[p].calls[1].subject = <<"Your ">> \o N \o <<" is ready!">>
               /\ inv[p].calls[1].html = OnePass(T, N, E)
               /\ inv[p].calls[1].bearer = RESEND_API_KEY
               /\ inv[p].response =
                      [status |-> 200, key |-> "message",
                       text |-> <<"Email sent to ">> \o E,
                       resendId |-> Field(inv[p].providerJson.value, "id")]

C12_Witness ==
    \E p \in Procs :
        /\ Done(p)
        /\ inv[p].fetches = 0
        /\ Len(inv[p].calls) = 1
        /\ inv[p].calls[1].subject = <<"Your ", "E-book", " is ready!">>
        /\ inv[p].calls[1].html =
               <<"Hi ", "buyer@x.com", ", your ", "E-book", " is ready">>
        /\ inv[p].response.status = 200
        /\ inv[p].response.resendId = Str(<<"em_123">>)

(***************************************************************************)
(* Properties of the failure paths.                                        *)
(***************************************************************************)
IsEmailSent(r) == r.status = 200 /\ Len(r.text) >= 1 /\ r.text[1] = "Email sent to "
ProviderRejected(p) ==
    inv[p].providerResponse.kind = "response" /\ ~inv[p].providerResponse.ok

\* C13: in each of the five handlers, the 200 "Email sent to ..." response
\* is returned only if the provider answered the invocation's call with a
\* success status.
C13_SentOnlyOnProviderSuccess ==
    \A p \in Procs :
        (Done(p) /\ IsEmailSent(inv[p].response))
        => /\ inv[p].providerResponse.kind = "response"
           /\ inv[p].providerResponse.ok

\* C14: in the handler with getEmailTemplate and sendEmail, a template fetch
\* failure is answered 500 "Failed to fetch email template", a missing
\* credential and a provider rejection each a 500 with a message of its own,
\* never the catch-all "Internal Server Error".
C14_NamedFailuresAreSpecific ==
    \A p \in Procs :
        (variant = "helpers" /\ Done(p))
        => /\ TemplateFetchFailed(p)
              => inv[p].response = Response(500, "error", <<"Failed to fetch email template">>)
           /\ (TemplateObtained(p) /\ CredentialMissing)
              => /\ inv[p].response.status = 500
                 /\ inv[p].response.text # <<"Internal Server Error">>
           /\ ProviderRejected(p)
              => /\ inv[p].response.status = 500
                 /\ inv[p].response.text # <<"Internal Server Error">>

(***************************************************************************)
(* Properties of the order of the stages.                                  *)
(***************************************************************************)
\* the request passed the method, decode, event-type and buyer-email checks
Validated(p) == HasBuyerEmail(p)

\* what has happened so far in an invocation is in stage order
C15_StagesInOrderState ==
    \A p \in Procs :
        /\ inv[p].fetches <= 1
        /\ inv[p].fetches = 1 => Validated(p)
        /\ inv[p].templateResponse.kind # "none" => inv[p].fetches = 1
        /\ inv[p].templateText.kind # "none"
           => inv[p].templateResponse.kind = "response"
        /\ Len(inv[p].calls) <= 1
        /\ inv[p].calls # <<>> => (Validated(p) /\ TemplateObtained(p))
        /\ inv[p].providerResponse.kind # "none" => Len(inv[p].calls) = 1
        /\ inv[p].providerText.kind # "none" \/ inv[p].providerJson.kind # "none"
           => inv[p].providerResponse.kind = "response"
        /\ inv[p].response # NoResponse <=> Done(p)
        /\ Done(p)
           => /\ inv[p].response.status \in {200, 400, 405, 500}
              /\ inv[p].fetches = 1 => inv[p].templateResponse.kind # "none"
              /\ inv[p].calls # <<>> => inv[p].providerResponse.kind # "none"

\* each step of an invocation moves it forward
C15_StagesInOrderStep ==
    \A p \in Procs :
        /\ inv'[p].fetches > inv[p].fetches
           => (inv[p].pc = "idle" /\ inv'[p].calls = <<>> /\ ~Done(p)')
        /\ Len(inv'[p].calls) > Len(inv[p].calls)
           => (TemplateObtained(p) /\ inv[p].response = NoResponse
               /\ inv'[p].fetches = inv[p].fetches)
        /\ Done(p)
           => (inv'[p] = inv[p] \/ (inv'[p] = Blank /\ fetchCount' = fetchCount))

\* C15: per invocation the stages run in the order Received, Validated,
\* TemplateReady, Dispatched, Responded: at most one template fetch, made
\* only after the method, decode, event-type and buyer-email checks passed;
\* at most one provider call, made only with a template obtained in the same
\* invocation; the response comes after the last network call has settled,
\* and nothing follows the response.
C15_StagesInOrder == [](C15_StagesInOrderState) /\ [][C15_StagesInOrderStep]_vars

C15_Witness ==
    \E p \in Procs :
        /\ Done(p)
        /\ inv[p].fetches = 1
        /\ inv[p].templateText.kind = "value"
        /\ Len(inv[p].calls) = 1
        /\ inv[p].providerJson.kind = "value"
        /\ IsEmailSent(inv[p].response)
        /\ started = 2

(***************************************************************************)
(* Properties of the template cache.                                       *)
(***************************************************************************)
\* a step taken while the cache holds a template
C16_CacheKeptStep ==
    (cachedEmailTemplate.type = "string" /\ cachedEmailTemplate.str # <<>>)
    => cachedEmailTemplate' = cachedEmailTemplate

\* the template an invocation renders with is a text the source returned
C16_RendersFetchedText ==
    \A p \in Procs :
        inv[p].pc \in {"templateReady", "awaitProvider", "awaitJson"}
        => inv[p].emailTemplate \in TemplateTexts

\* C16: with invocations interleaved at the awaits of getEmailTemplate, a
\* cache that holds a template is never given a different one afterwards,
\* and every invocation renders with a text the template source returned to
\* a successful fetch, also when the source returns different texts to
\* different fetches.
C16_CacheNeverReplaced == [](C16_RendersFetchedText) /\ [][C16_CacheKeptStep]_vars

(***************************************************************************)
(* Termination.                                                            *)
(***************************************************************************)
\* a fault none of the handler's own checks names: a property read on a null
\* or absent body, or on a null provider result
UnclassifiedFault(p) ==
    \/ (inv[p].method = "POST" /\ Decodes(inv[p].body) /\ Nullish(PayloadOf(inv[p].body)))
    \/ (/\ inv[p].providerResponse.kind = "response"
        /\ inv[p].providerResponse.ok
        /\ inv[p].providerJson.kind = "value"
        /\ Nullish(inv[p].providerJson.value))

C17_ResponseState ==
    \A p \in Procs :
        Done(p)
        => /\ inv[p].response.status \in {200, 400, 405, 500}
           /\ inv[p].response.key \in {"message", "error"}
           /\ UnclassifiedFault(p)
              => inv[p].response = Response(500, "error", <<"Internal Server Error">>)

\* a response, once given, is not given again or changed
C17_OneResponseStep ==
    \A p \in Procs :
        inv[p].response # NoResponse
        => (inv'[p].response = inv[p].response \/ inv'[p] = Blank)

\* C17: every invocation, whatever the method, the body and the outcomes of
\* the two network calls, provided each awaited operation settles, comes to
\* exactly one response, whose status is 200, 400, 405 or 500; a fault that
\* none of the checks names is answered 500 "Internal Server Error".
C17_AlwaysResponds ==
    /\ [](C17_ResponseState)
    /\ [][C17_OneResponseStep]_vars
    /\ \A p \in Procs : [](Active(p) => <>Done(p))

C17_Witness ==
    \E p \in Procs :
        /\ variant = "pgCached"
        /\ Done(p)
        /\ inv[p].providerResponse = HttpResponse(TRUE, "200")
        /\ inv[p].providerJson = Settled(Null)
        /\ inv[p].response = Response(500, "error", <<"Internal Server Error">>)

(***************************************************************************)
(* Frame of the template cache.                                            *)
(***************************************************************************)
\* a step that changes the cache is the settling of response.text() of an ok
\* answer of the template source, and stores that text; a step that ends an
\* invocation without it leaves the cache as it was
C18_CacheFrameStep ==
    /\ cachedEmailTemplate' # cachedEmailTemplate
       => \E p \in Procs :
              /\ inv[p].pc = "awaitText"
              /\ inv[p].templateResponse.kind = "response"
              /\ inv[p].templateResponse.ok
              /\ inv'[p].templateText.kind = "value"
              /\ cachedEmailTemplate' = Str(inv'[p].templateText.value)
    /\ \A p \in Procs :
           (~Done(p) /\ Done(p)') => cachedEmailTemplate' = cachedEmailTemplate
    /\ \A p \in Procs :
           (Done(p) /\ ~Done(p)') => cachedEmailTemplate' = cachedEmailTemplate

\* an invocation of the cached handler that got its template and then failed
\* at the credential check or at the provider call, or succeeded, has left
\* that template in the cache
C18_CacheFrameState ==
    \A p \in Procs :
        (variant = "pgCached" /\ Done(p))
        => /\ inv[p].templateText.kind = "value"
              => cachedEmailTemplate = Str(inv[p].templateText.value)
           /\ (inv[p].fetches = 0 /\ inv[p].emailTemplate # <<>>)
              => cachedEmailTemplate = Str(inv[p].emailTemplate)
           /\ (inv[p].fetches = 1 /\ inv[p].templateText.kind # "value")
              => ~Truthy(cachedEmailTemplate)

\* C18: the only step that changes the template cache is a successful
\* template fetch: an invocation that ends in 405, 400, 200 ignored, the
\* template failure or the catch-all 500 leaves the cache as it found it, and
\* one that fails at the credential check or at the provider call leaves the
\* cache holding the template it obtained.
C18_CacheFrame == [](C18_CacheFrameState) /\ [][C18_CacheFrameStep]_vars

C18_Witness ==
    \E p \in Procs :
        /\ variant = "pgCached"
        /\ Done(p)
        /\ lastResponse = Response(500, "error", <<"Failed to fetch email template">>)
        /\ inv[p].fetches = 1
        /\ inv[p].templateText.kind = "value"
        /\ inv[p].response = Response(500, "error", <<"Resend API key not configured">>)
        /\ cachedEmailTemplate = Str(inv[p].templateText.value)
        /\ cachedEmailTemplate.str # <<>>

(***************************************************************************)
(* The two caching handlers side by side.                                  *)
(***************************************************************************)
BothDone == twin.switched /\ Done(1) /\ Done(2)

\* C19: the handler with getEmailTemplate and sendEmail and the cached
\* handler of src/pg.js, run from the same cache on the same request with the
\* same credential and the same network outcomes, make the same template
\* fetches and the same provider calls, end with the same status code (and
\* the same body unless it is an error message) and leave the cache in the
\* same state.
C19_SameCallsStatusAndCache ==
    BothDone
    => /\ inv[2].fetches = inv[1].fetches
       /\ inv[2].calls = inv[1].calls
       /\ inv[2].templateResponse = inv[1].templateResponse
       /\ inv[2].templateText = inv[1].templateText
       /\ inv[2].providerResponse = inv[1].providerResponse
       /\ inv[2].providerText = inv[1].providerText
       /\ inv[2].providerJson = inv[1].providerJson
       /\ inv[2].response.status = inv[1].response.status
       /\ inv[2].response.key = inv[1].response.key
       /\ inv[2].response.resendId = inv[1].response.resendId
       /\ inv[1].response.key = "message" => inv[2].response = inv[1].response
       /\ cachedEmailTemplate = twin.first

C19_Witness ==
    /\ BothDone
    /\ twin.start = Null
    /\ Len(inv[1].calls) = 1
    /\ inv[1].providerResponse = HttpResponse(FALSE, "422")
    /\ inv[1].response = Response(500, "error", <<"Internal Server Error">>)
    /\ inv[2].response = Response(500, "error", <<"Failed to send email">>)
    /\ cachedEmailTemplate.type = "string"

====
